---- MODULE Spec2Model ----
(* Model of pong_game.py: the fixed-timestep loop of Game.run driving one   *)
(* Ball, two Paddles, the Player (keyboard) and SimpleAI (ball tracking).   *)
(* Rectangles are pygame Rects: integer top-left corner plus width/height.  *)
EXTENDS Integers, Sequences, FiniteSets, TLC

\* ---------------------------------------------------------------- bounds
\* Number of iterations of the loop of Game.run that are explored: enough for
\* the ball to cross half the field (65 frames) and be reset.
MaxFrames == 66
\* The same for the long exploration: enough for two points in a row.
MaxFramesLong == 130
\* Number of events one pygame.event.get() poll hands to the loop.
MaxEvents == 1

\* ------------------------------------------------------ program constants
WIDTH == 800
HEIGHT == 600
BALL_RADIUS == 10
BALL_SPEED == 6
PADDLE_WIDTH == 10
PADDLE_HEIGHT == 100
PADDLE_SPEED == 5
\* horizontal offset of the paddles from the side edges, Paddle(20, ..) and
\* Paddle(WIDTH - 20, ..)
PADDLE_OFFSET == 20

BallSize == 2 * BALL_RADIUS

Abs(n) == IF n < 0 THEN -n ELSE n

\* indices of Game.paddles: paddles[0] is the player's, paddles[1] the AI's
PLAYER == 1
AI == 2

\* ------------------------------------------------------------- pygame.Rect
\* Rect.colliderect: strict overlap on both axes (touching edges do not
\* collide).  l/t are the left/top, w/h the sizes.
Colliderect(l1, t1, w1, h1, l2, t2, w2, h2) ==
    /\ l1 < l2 + w2
    /\ l1 + w1 > l2
    /\ t1 < t2 + h2
    /\ t1 + h1 > t2

BallHitsPaddle(b, p) ==
    Colliderect(b.x, b.y, BallSize, BallSize, p.x, p.y, PADDLE_WIDTH, PADDLE_HEIGHT)

BallCenterX(b) == b.x + BallSize \div 2
BallCenterY(b) == b.y + BallSize \div 2
PaddleCenterY(p) == p.y + PADDLE_HEIGHT \div 2

\* ------------------------------------------------------------------- Ball
\* rect.topleft written for rect.center
CenteredBall_TopLeft(vx, vy) ==
    [x |-> WIDTH \div 2, y |-> HEIGHT \div 2, x_vel |-> vx, y_vel |-> vy]

\* rect.center = (WIDTH / 2, HEIGHT / 2) on a rect of size 2*radius
CenteredBall(vx, vy) ==
    [x |-> WIDTH \div 2 - BallSize \div 2, y |-> HEIGHT \div 2 - BallSize \div 2,
     x_vel |-> vx, y_vel |-> vy]

\* random.choice([-movement_speed, movement_speed])
SpeedChoices == {-BALL_SPEED, BALL_SPEED}

\* Ball.update, lines 51-52
BallMove(b) == [b EXCEPT !.x = b.x + b.x_vel, !.y = b.y + b.y_vel]

\* Ball.update, line 54
WallCrossed(b) == b.y < 0 \/ b.y + BallSize > HEIGHT

\* lines 55-56 with "-= 1" written for "*= -1"
WallBounce_Subtract(b) ==
    IF WallCrossed(b)
    THEN [b EXCEPT !.y_vel = b.y_vel - 1, !.y = b.y + b.y_vel - 1]
    ELSE b

\* lines 55-56 without the step back of line 56
WallBounce_NoStepBack(b) ==
    IF WallCrossed(b) THEN [b EXCEPT !.y_vel = -b.y_vel] ELSE b

\* Ball.update, lines 54-56
WallBounce(b) ==
    IF WallCrossed(b)
    THEN [b EXCEPT !.y_vel = -b.y_vel, !.y = b.y - b.y_vel]
    ELSE b

\* lines 60-64 without the inversion of x_vel (lines 61-62)
PaddleBounce_NoFlipX(b, p) ==
    IF BallHitsPaddle(b, p)
    THEN [b EXCEPT !.y_vel = -b.y_vel, !.y = b.y - b.y_vel]
    ELSE b

\* Ball.update, body of the paddle loop, lines 60-64
PaddleBounce(b, p) ==
    IF BallHitsPaddle(b, p)
    THEN [b EXCEPT !.x_vel = -b.x_vel, !.x = b.x - b.x_vel,
                   !.y_vel = -b.y_vel, !.y = b.y - b.y_vel]
    ELSE b

\* Ball.update: move, wall bounce, then the loop over paddles in list order
BallUpdate(b, ps) ==
    PaddleBounce(PaddleBounce(WallBounce(BallMove(b)), ps[PLAYER]), ps[AI])

\* ----------------------------------------------------------------- Paddle
\* Paddle.update with the top clamp (the if branch) left out
PaddleUpdate_NoTopClamp(p) ==
    LET y1 == p.y + p.y_vel IN
    IF y1 + PADDLE_HEIGHT >= HEIGHT THEN [p EXCEPT !.y = HEIGHT - PADDLE_HEIGHT]
    ELSE [p EXCEPT !.y = y1]

\* Paddle.update stopping a paddle that reaches an edge
PaddleUpdate_StopAtEdge(p) ==
    LET y1 == p.y + p.y_vel IN
    IF y1 <= 0 THEN [p EXCEPT !.y = 0, !.y_vel = 0]
    ELSE IF y1 + PADDLE_HEIGHT >= HEIGHT
         THEN [p EXCEPT !.y = HEIGHT - PADDLE_HEIGHT, !.y_vel = 0]
    ELSE [p EXCEPT !.y = y1]

\* Paddle.update
PaddleUpdate(p) ==
    LET y1 == p.y + p.y_vel IN
    IF y1 <= 0 THEN [p EXCEPT !.y = 0]
    ELSE IF y1 + PADDLE_HEIGHT >= HEIGHT THEN [p EXCEPT !.y = HEIGHT - PADDLE_HEIGHT]
    ELSE [p EXCEPT !.y = y1]

move_up(p) == [p EXCEPT !.y_vel = -PADDLE_SPEED]
move_down(p) == [p EXCEPT !.y_vel = PADDLE_SPEED]
move_stop(p) == [p EXCEPT !.y_vel = 0]

\* ----------------------------------------------------------------- events
EventTypes == {"KEYDOWN", "KEYUP", "QUIT", "MOUSEMOTION"}
Keys == {"K_w", "K_UP", "K_s", "K_DOWN", "K_SPACE"}
Events ==
    [type : {"KEYDOWN", "KEYUP"}, key : Keys]
      \cup [type : {"QUIT", "MOUSEMOTION"}, key : {"none"}]

\* Player.handle_event stopping only on the release of the key that is the
\* current direction (held keys tracked)
handle_event_HeldKeys(p, e) ==
    IF e.type = "KEYDOWN"
    THEN IF e.key = "K_w" \/ e.key = "K_UP" THEN move_up(p)
         ELSE IF e.key = "K_s" \/ e.key = "K_DOWN" THEN move_down(p)
         ELSE p
    ELSE IF e.type = "KEYUP"
    THEN IF (e.key = "K_w" \/ e.key = "K_UP") /\ p.y_vel < 0 THEN move_stop(p)
         ELSE IF (e.key = "K_s" \/ e.key = "K_DOWN") /\ p.y_vel > 0 THEN move_stop(p)
         ELSE p
    ELSE p

\* Player.handle_event applied to the player's paddle
handle_event(p, e) ==
    IF e.type = "KEYDOWN"
    THEN IF e.key = "K_w" \/ e.key = "K_UP" THEN move_up(p)
         ELSE IF e.key = "K_s" \/ e.key = "K_DOWN" THEN move_down(p)
         ELSE p
    ELSE IF e.type = "KEYUP"
    THEN IF e.key = "K_w" \/ e.key = "K_UP" THEN move_stop(p)
         ELSE IF e.key = "K_s" \/ e.key = "K_DOWN" THEN move_stop(p)
         ELSE p
    ELSE p

\* SimpleAI.move without the else branch (no move_stop)
ai_move_NoStop(p, b) ==
    IF BallCenterY(b) < PaddleCenterY(p) THEN move_up(p)
    ELSE IF BallCenterY(b) > PaddleCenterY(p) THEN move_down(p)
    ELSE p

\* SimpleAI.move applied to the AI's paddle
ai_move(p, b) ==
    IF BallCenterY(b) < PaddleCenterY(p) THEN move_up(p)
    ELSE IF BallCenterY(b) > PaddleCenterY(p) THEN move_down(p)
    ELSE move_stop(p)

\* ------------------------------------------------------------------ state
VARIABLES
    ball,           \* Game.ball: rect.x, rect.y, x_vel, y_vel
    paddles,        \* Game.paddles: rect.x, rect.y, y_vel of each paddle
    player_score,   \* Game.player.score
    ai_score,       \* Game.ai.score
    running,        \* Game.running
    pc,             \* position of the loop of Game.run
    polled,         \* events of the current poll already handled
    frame,          \* iterations of the loop of Game.run completed
    start,          \* the ball on entry to the Ball.update of this frame
    event           \* the event handled by the last turn of the event loop

vars == <<ball, paddles, player_score, ai_score, running, pc, polled, frame, start,
          event>>

NoStart == [x |-> 0, y |-> 0, x_vel |-> 0, y_vel |-> 0]

\* no event is being handled
NoEvent == [type |-> "none", key |-> "none"]

\* Game.__init__
Init ==
    /\ \E vx \in SpeedChoices, vy \in SpeedChoices : ball = CenteredBall(vx, vy)
    /\ paddles = <<[x |-> PADDLE_OFFSET, y |-> HEIGHT \div 2 - 100, y_vel |-> 0],
                   [x |-> WIDTH - PADDLE_OFFSET, y |-> HEIGHT \div 2 - 100, y_vel |-> 0]>>
    /\ player_score = 0
    /\ ai_score = 0
    /\ running = TRUE
    /\ pc = "events"
    /\ polled = 0
    /\ frame = 0
    /\ start = NoStart
    /\ event = NoEvent

\* Game.update with check_boundaries called before ball.update
NextPc_ScoreFirst(p) ==
    CASE p = "events" -> "ai"
      [] p = "ai" -> "bounds"
      [] p = "bounds" -> "ball"
      [] p = "ball" -> "paddles"
      [] p = "paddles" -> "draw"
      [] p = "draw" -> "events"

\* order of the calls of one iteration of Game.run: handle_events (the event
\* loop, then ai.move), update (ball.update, check_boundaries, the paddle
\* loop), draw
NextPc(p) ==
    CASE p = "events" -> "ai"
      [] p = "ai" -> "ball"
      [] p = "ball" -> "bounds"
      [] p = "bounds" -> "paddles"
      [] p = "paddles" -> "draw"
      [] p = "draw" -> "events"

\* Game.handle_events, one turn of the loop over pygame.event.get()
HandleEvent ==
    /\ pc = "events"
    /\ polled < MaxEvents
    /\ \E e \in Events :
        /\ event' = e
        /\ running' = IF e.type = "QUIT" THEN FALSE ELSE running
        /\ paddles' = [paddles EXCEPT ![PLAYER] = handle_event(paddles[PLAYER], e)]
    /\ polled' = polled + 1
    /\ UNCHANGED <<ball, player_score, ai_score, pc, frame, start>>

\* Game.handle_events, the event loop is exhausted
EndEvents ==
    /\ pc = "events"
    /\ pc' = NextPc(pc)
    /\ polled' = 0
    /\ event' = NoEvent
    /\ UNCHANGED <<ball, paddles, player_score, ai_score, running, frame, start>>

\* Game.handle_events, line 232: self.ai.move()
AIMove ==
    /\ pc = "ai"
    /\ paddles' = [paddles EXCEPT ![AI] = ai_move(paddles[AI], ball)]
    /\ pc' = NextPc(pc)
    /\ UNCHANGED <<ball, player_score, ai_score, running, polled, frame, start, event>>

\* Game.update, line 254: self.ball.update(self.paddles)
BallStep ==
    /\ pc = "ball"
    /\ start' = ball
    /\ ball' = BallUpdate(ball, paddles)
    /\ pc' = NextPc(pc)
    /\ UNCHANGED <<paddles, player_score, ai_score, running, polled, frame, event>>

\* Game.check_boundaries, lines 245-248
ClampVertical(b) ==
    IF b.y <= 0 THEN [b EXCEPT !.y_vel = Abs(b.y_vel)]
    ELSE IF b.y + BallSize >= HEIGHT THEN [b EXCEPT !.y_vel = -Abs(b.y_vel)]
    ELSE b

\* line 238 with < for <=
LeftOut_Strict(b) == b.x < 0
\* line 238 testing the ball's far edge against the left edge
LeftOut_Early(b) == b.x - BallSize <= 0

\* Game.check_boundaries, line 238
LeftOut(b) == b.x <= 0

\* line 241 with > for >=
RightOut_Strict(b) == b.x + BallSize > WIDTH

\* Game.check_boundaries, line 241
RightOut(b) == b.x + BallSize >= WIDTH

\* check_boundaries without the call of ball.reset() at the left edge
CheckBoundaries_ScoreNoReset ==
    /\ pc = "bounds"
    /\ IF LeftOut(ball)
       THEN /\ ball' = ClampVertical(ball)
            /\ ai_score' = ai_score + 1
            /\ player_score' = player_score
       ELSE IF RightOut(ball)
       THEN /\ \E vx \in SpeedChoices, vy \in SpeedChoices :
                 ball' = ClampVertical(CenteredBall(vx, vy))
            /\ player_score' = player_score + 1
            /\ ai_score' = ai_score
       ELSE /\ ball' = ClampVertical(ball)
            /\ UNCHANGED <<player_score, ai_score>>
    /\ pc' = NextPc(pc)
    /\ UNCHANGED <<paddles, running, polled, frame, start, event>>

\* Game.update, line 255: self.check_boundaries()
CheckBoundaries ==
    /\ pc = "bounds"
    /\ IF LeftOut(ball)
       THEN /\ \E vx \in SpeedChoices, vy \in SpeedChoices :
                 ball' = ClampVertical(CenteredBall(vx, vy))
            /\ ai_score' = ai_score + 1
            /\ player_score' = player_score
       ELSE IF RightOut(ball)
       THEN /\ \E vx \in SpeedChoices, vy \in SpeedChoices :
                 ball' = ClampVertical(CenteredBall(vx, vy))
            /\ player_score' = player_score + 1
            /\ ai_score' = ai_score
       ELSE /\ ball' = ClampVertical(ball)
            /\ UNCHANGED <<player_score, ai_score>>
    /\ pc' = NextPc(pc)
    /\ UNCHANGED <<paddles, running, polled, frame, start, event>>

\* Game.update, lines 257-258: paddle.update() for each paddle
PaddlesStep ==
    /\ pc = "paddles"
    /\ paddles' = [i \in DOMAIN paddles |-> PaddleUpdate(paddles[i])]
    /\ pc' = NextPc(pc)
    /\ UNCHANGED <<ball, player_score, ai_score, running, polled, frame, start, event>>

\* Game.run looping without the test of self.running
DrawUpTo_NoTest(n) ==
    /\ pc = "draw"
    /\ frame < n
    /\ pc' = NextPc(pc)
    /\ frame' = frame + 1
    /\ start' = NoStart
    /\ UNCHANGED <<ball, paddles, player_score, ai_score, running, polled, event>>

\* Game.draw followed by the loop test of Game.run; n bounds the exploration
DrawUpTo(n) ==
    /\ pc = "draw"
    /\ frame < n
    /\ pc' = IF running THEN NextPc(pc) ELSE "done"
    /\ frame' = frame + 1
    /\ start' = NoStart
    /\ UNCHANGED <<ball, paddles, player_score, ai_score, running, polled, event>>

Draw == DrawUpTo(MaxFrames)

DrawLong == DrawUpTo(MaxFramesLong)

\* the calls of one iteration of Game.run before draw
Step ==
    \/ HandleEvent
    \/ EndEvents
    \/ AIMove
    \/ BallStep
    \/ CheckBoundaries
    \/ PaddlesStep

Next == Step \/ Draw

Spec == Init /\ [][Next]_vars

NextLong == Step \/ DrawLong

\* the same program, explored for MaxFramesLong iterations
SpecLong == Init /\ [][NextLong]_vars

TypeOK ==
    /\ pc \in {"events", "ai", "ball", "bounds", "paddles", "draw", "done"}
    /\ running \in BOOLEAN
    /\ polled \in 0..MaxEvents
    /\ frame \in 0..MaxFramesLong
    /\ player_score \in Nat
    /\ ai_score \in Nat

\* ------------------------------------------------------------- properties
ScreenCenterX == WIDTH \div 2
ScreenCenterY == HEIGHT \div 2
AtCenter(b) == BallCenterX(b) = ScreenCenterX /\ BallCenterY(b) = ScreenCenterY

\* C1: each paddle's vertical position stays within [0, HEIGHT - paddle
\* height] = [0, 500] in every state, from the initial y = HEIGHT/2 - 100 on,
\* for the player's paddle and for the AI's.
C1_PaddleWithinScreen ==
    \A i \in DOMAIN paddles :
        0 <= paddles[i].y /\ paddles[i].y <= HEIGHT - PADDLE_HEIGHT

\* a frame ended with both paddles pushed against the top edge, each still
\* moving upwards (Paddle.update has clamped both)
C1_Witness ==
    /\ pc = "draw"
    /\ \A i \in DOMAIN paddles :
          paddles[i].y = 0 /\ paddles[i].y_vel = -PADDLE_SPEED

\* C2: when check_boundaries runs with the ball's left edge at or beyond the
\* left edge of the screen (rect.x <= 0), the AI's score grows by exactly 1,
\* the player's score is unchanged and the ball is back at the screen center.
C2_LeftEdgeScoresAI ==
    [][(pc = "bounds" /\ ball.x <= 0) =>
          /\ ai_score' = ai_score + 1
          /\ player_score' = player_score
          /\ AtCenter(ball')]_vars

\* check_boundaries has just run on a ball that Ball.update took to the left
\* edge, and the AI has its point
C2_Witness ==
    /\ pc = "paddles"
    /\ start.x_vel < 0 /\ start.x + start.x_vel <= 0
    /\ ai_score = 1 /\ player_score = 0
    /\ AtCenter(ball)

\* C3: when check_boundaries runs with the ball at or beyond the right edge
\* of the screen (rect.x + width >= WIDTH, which rect.x >= WIDTH implies), the
\* player's score grows by exactly 1, the AI's score is unchanged and the
\* ball is back at the screen center.
C3_RightEdgeScoresPlayer ==
    [][(pc = "bounds" /\ ball.x + BallSize >= WIDTH) =>
          /\ player_score' = player_score + 1
          /\ ai_score' = ai_score
          /\ AtCenter(ball')]_vars

\* check_boundaries has just run on a ball that Ball.update took to the right
\* edge, and the player has a point
C3_Witness ==
    /\ pc = "paddles"
    /\ start.x_vel > 0 /\ start.x + start.x_vel + BallSize >= WIDTH
    /\ player_score = 1
    /\ AtCenter(ball)

\* C4 as stated: check_boundaries with 0 < rect.x < WIDTH changes no score
\* and leaves the ball where it is.
C4_Original ==
    [][(pc = "bounds" /\ 0 < ball.x /\ ball.x < WIDTH) =>
          /\ player_score' = player_score
          /\ ai_score' = ai_score
          /\ ball'.x = ball.x /\ ball'.y = ball.y]_vars

\* C4: check_boundaries with the whole ball strictly inside the field
\* horizontally (0 < rect.x and rect.x + width < WIDTH) changes neither
\* score and leaves the ball's position unchanged.
C4_InsideNoScore ==
    [][(pc = "bounds" /\ 0 < ball.x /\ ball.x + BallSize < WIDTH) =>
          /\ player_score' = player_score
          /\ ai_score' = ai_score
          /\ ball'.x = ball.x /\ ball'.y = ball.y]_vars

\* check_boundaries has just run on a ball one step short of the left edge
\* and nobody has scored
C4_Witness ==
    /\ pc = "paddles"
    /\ ball.x = BALL_SPEED /\ ball.x_vel < 0
    /\ start.x = 2 * BALL_SPEED
    /\ ai_score = 0 /\ player_score = 0

\* the ball's rectangle left the screen at the top or at the bottom when the
\* move of this frame was applied
WallCrossedInFrame ==
    \/ start.y + start.y_vel < 0
    \/ start.y + start.y_vel + BallSize > HEIGHT

\* C5 as stated: across a frame (Ball.update, then check_boundaries) the sign
\* of the ball's vertical velocity changes exactly when the top or bottom
\* edge of the ball crossed the top or bottom of the screen in that frame.
C5_VerticalFlipIffWall ==
    pc = "paddles" => ((ball.y_vel /= start.y_vel) <=> WallCrossedInFrame)

\* the paddles whose rectangle the ball overlaps when Ball.update tests them,
\* that is after the move and the wall bounce
PaddlesHit ==
    LET my == ball.y + ball.y_vel
        b  == [x |-> ball.x + ball.x_vel,
               y |-> IF my < 0 \/ my + BallSize > HEIGHT THEN ball.y ELSE my]
    IN  {i \in DOMAIN paddles :
            /\ b.x < paddles[i].x + PADDLE_WIDTH /\ b.x + BallSize > paddles[i].x
            /\ b.y < paddles[i].y + PADDLE_HEIGHT /\ b.y + BallSize > paddles[i].y}

\* C6: in Ball.update the ball's horizontal velocity is inverted exactly once
\* when the ball overlaps a paddle (never twice, no second paddle is overlapped
\* in the same frame) and is left alone when it overlaps none; the rest of
\* the frame changes it only by a reset.
C6_HorizontalFlipOncePerHit ==
    [][/\ pc = "ball" =>
            /\ Cardinality(PaddlesHit) <= 1
            /\ PaddlesHit /= {} => ball'.x_vel = -ball.x_vel
            /\ PaddlesHit = {} => ball'.x_vel = ball.x_vel
       /\ (pc = "bounds" /\ 0 < ball.x /\ ball.x + BallSize < WIDTH) =>
            ball'.x_vel = ball.x_vel
       /\ pc \notin {"ball", "bounds"} => ball'.x_vel = ball.x_vel]_vars

\* Ball.update has just bounced the ball off the player's paddle: it was
\* moving left and now moves right
C6_Witness ==
    /\ pc = "bounds"
    /\ start.x_vel = -BALL_SPEED /\ ball.x_vel = BALL_SPEED
    /\ ball.x > paddles[PLAYER].x

\* C7: the ball is constructed, and left by every reset, with its center
\* exactly at (WIDTH/2, HEIGHT/2) = (400, 300) and |x_vel| = |y_vel| = 6, and
\* at a reset each of the four sign combinations can be the outcome.
C7_ResetCentersBall ==
    /\ (AtCenter(ball) /\ Abs(ball.x_vel) = BALL_SPEED /\ Abs(ball.y_vel) = BALL_SPEED)
    /\ [][(pc = "bounds" /\ (ball.x <= 0 \/ ball.x + BallSize >= WIDTH)) =>
            /\ BallCenterX(ball') = 400 /\ BallCenterY(ball') = 300
            /\ Abs(ball'.x_vel) = BALL_SPEED /\ Abs(ball'.y_vel) = BALL_SPEED]_vars
    /\ [](pc = "bounds" /\ (ball.x <= 0 \/ ball.x + BallSize >= WIDTH) =>
            \A vx \in {-BALL_SPEED, BALL_SPEED}, vy \in {-BALL_SPEED, BALL_SPEED} :
                ENABLED (CheckBoundaries /\ ball'.x_vel = vx /\ ball'.y_vel = vy))

\* a reset has just sent the ball from the center up and to the right
C7_Witness ==
    /\ pc = "paddles"
    /\ ai_score + player_score > 0
    /\ start.x + start.x_vel <= 0
    /\ ball = [x |-> 390, y |-> 290, x_vel |-> BALL_SPEED, y_vel |-> -BALL_SPEED]

\* C8: in every reachable state |x_vel| = |y_vel| = movement_speed = 6.
C8_SpeedConstant ==
    Abs(ball.x_vel) = BALL_SPEED /\ Abs(ball.y_vel) = BALL_SPEED

\* the ball, which bounced off a wall on its way to the left edge and was
\* reset there, has made its first move from the center
C8_Witness ==
    /\ pc = "bounds"
    /\ ai_score = 1
    /\ start.x = 390 /\ start.y = 290
    /\ ball.x = 390 + ball.x_vel /\ ball.y = 290 + ball.y_vel

\* the velocity SimpleAI.move chooses for a paddle at py and a ball at by
TrackingVelocity(by, py) ==
    IF by + BALL_RADIUS < py + PADDLE_HEIGHT \div 2 THEN -PADDLE_SPEED
    ELSE IF by + BALL_RADIUS > py + PADDLE_HEIGHT \div 2 THEN PADDLE_SPEED
    ELSE 0

\* C9: SimpleAI.move leaves the AI paddle's velocity at -speed when the
\* ball's vertical center is above the paddle's, +speed when below, 0 when
\* equal; nothing changes it until the paddle's move of the same frame, which
\* adds it to the paddle's position (clamped).
C9_AITracksBall ==
    [][/\ pc = "ai" =>
            paddles'[AI].y_vel = TrackingVelocity(ball.y, paddles[AI].y)
       /\ pc \in {"ball", "bounds", "paddles"} =>
            paddles'[AI].y_vel = paddles[AI].y_vel
       /\ pc = "paddles" =>
            LET y1 == paddles[AI].y + paddles[AI].y_vel IN
            paddles'[AI].y = IF y1 <= 0 THEN 0
                             ELSE IF y1 >= HEIGHT - PADDLE_HEIGHT
                                  THEN HEIGHT - PADDLE_HEIGHT ELSE y1]_vars

\* the AI's paddle, which had been moving, was stopped because its center is
\* level with the ball's, and stayed where it was in the paddle move
C9_Witness ==
    /\ pc = "draw"
    /\ frame > 0
    /\ paddles[AI].y_vel = 0
    /\ start.y + BALL_RADIUS = paddles[AI].y + PADDLE_HEIGHT \div 2

\* C10: a frame runs its steps in the order event polling, AI tracking, ball
\* update, scoring check, paddle moves (then draw), each once: the position
\* of the loop only advances along that order, key events act only during
\* polling, the AI's velocity changes only in the tracking step, the ball only
\* in the ball update and the scoring check, the scores only in the scoring
\* check, and the paddles move only in the last step.
C10_FrameOrder ==
    [][/\ pc = "events" => pc' \in {"events", "ai"}
       /\ pc = "ai" => pc' = "ball"
       /\ pc = "ball" => pc' = "bounds"
       /\ pc = "bounds" => pc' = "paddles"
       /\ pc = "paddles" => pc' = "draw"
       /\ pc = "draw" => pc' \in {"events", "done"} /\ frame' = frame + 1
       /\ pc /= "draw" => frame' = frame
       /\ (paddles'[PLAYER].y_vel /= paddles[PLAYER].y_vel \/ running' /= running)
             => pc = "events"
       /\ paddles'[AI].y_vel /= paddles[AI].y_vel => pc = "ai"
       /\ (ball'.x /= ball.x \/ ball'.y /= ball.y) => pc \in {"ball", "bounds"}
       /\ (ai_score' /= ai_score \/ player_score' /= player_score) => pc = "bounds"
       /\ (\E i \in DOMAIN paddles : paddles'[i].y /= paddles[i].y) => pc = "paddles"]_vars

\* the second frame has run up to draw: a key was handled, the AI tracked,
\* the ball moved twice and both paddles moved
C10_Witness ==
    /\ pc = "draw" /\ frame = 1
    /\ paddles[PLAYER].y_vel = PADDLE_SPEED /\ paddles[PLAYER].y = 210
    /\ paddles[AI].y = 210
    /\ ball.x = 390 + 2 * BALL_SPEED

\* C11: running is true until a QUIT event is handled, that step makes it
\* false and nothing makes it true again; the iteration in which QUIT was
\* polled is completed and is the last one (the loop ends after its draw and
\* nothing runs afterwards); the loop ends only after a QUIT.
C11_QuitStopsLoop ==
    /\ running = TRUE
    /\ [][/\ (running /\ ~running') =>
               (pc = "events" /\ event'.type = "QUIT" /\ polled' = polled + 1)
          /\ (pc = "events" /\ polled' = polled + 1 /\ event'.type = "QUIT") => ~running'
          /\ ~running => ~running'
          /\ (pc = "draw" /\ ~running) => pc' = "done"
          /\ (pc = "draw" /\ running) => pc' = "events"
          /\ pc' = "done" => (pc = "draw" /\ ~running)
          /\ pc /= "done"]_vars

\* the loop has ended in a later iteration than the first, after a QUIT
C11_Witness ==
    /\ pc = "done"
    /\ ~running
    /\ frame > 2
    /\ ball.x /= 390

UpKeys == {"K_w", "K_UP"}
DownKeys == {"K_s", "K_DOWN"}

\* the velocity the claim gives the player's paddle after event e, v being
\* the velocity before it
KeyVelocity(e, v) ==
    IF e.type = "KEYDOWN" /\ e.key \in UpKeys THEN -PADDLE_SPEED
    ELSE IF e.type = "KEYDOWN" /\ e.key \in DownKeys THEN PADDLE_SPEED
    ELSE IF e.type = "KEYUP" /\ e.key \in UpKeys \cup DownKeys THEN 0
    ELSE v

\* C12: each handled event leaves the player's paddle with the velocity its
\* kind alone decides: key-down of up -5, key-down of down +5, key-up of up
\* or down 0 whatever the velocity was, and any other event the velocity it
\* had; so the last up/down key event wins.
C12_LastKeyEventWins ==
    [][(pc = "events" /\ polled' = polled + 1) =>
          paddles'[PLAYER].y_vel = KeyVelocity(event', paddles[PLAYER].y_vel)]_vars

\* the up key is released while the paddle, which an earlier key-down of
\* down has taken below its initial position, still moves down: it stops
C12_Witness ==
    /\ pc = "events" /\ polled = 1
    /\ event.type = "KEYUP" /\ event.key \in UpKeys
    /\ paddles[PLAYER].y_vel = 0
    /\ paddles[PLAYER].y = 205

\* C13: each paddle's velocity is always one of -5, 0, 5; the player's
\* changes only when an event is handled, the AI's only in the tracking
\* step, and the paddle move changes neither.
C13_VelocityOwnedByController ==
    /\ [](\A i \in DOMAIN paddles :
              paddles[i].y_vel \in {-PADDLE_SPEED, 0, PADDLE_SPEED})
    /\ [][/\ paddles'[PLAYER].y_vel /= paddles[PLAYER].y_vel =>
               (pc = "events" /\ polled' = polled + 1)
          /\ paddles'[AI].y_vel /= paddles[AI].y_vel => (pc = "ai" /\ pc' = "ball")
          /\ pc = "paddles" =>
               \A i \in DOMAIN paddles : paddles'[i].y_vel = paddles[i].y_vel]_vars

\* the paddle move has clamped the player's paddle at the bottom edge and
\* the AI's at the top edge, and both keep their velocity
C13_Witness ==
    /\ pc = "draw"
    /\ paddles[PLAYER].y = HEIGHT - PADDLE_HEIGHT
    /\ paddles[PLAYER].y_vel = PADDLE_SPEED
    /\ paddles[AI].y_vel = -PADDLE_SPEED
    /\ paddles[AI].y < HEIGHT \div 2 - 100

\* the ball of this frame where Ball.update tests it against the paddles:
\* moved, and stepped back vertically if it crossed a wall
MovedInFrame ==
    LET my == start.y + start.y_vel IN
    [x |-> start.x + start.x_vel,
     y |-> IF my < 0 \/ my + BallSize > HEIGHT THEN start.y ELSE my]

\* the rectangle of a ball at (bx, by) overlaps the rectangle of paddle i
Overlaps(bx, by, i) ==
    /\ bx < paddles[i].x + PADDLE_WIDTH /\ bx + BallSize > paddles[i].x
    /\ by < paddles[i].y + PADDLE_HEIGHT /\ by + BallSize > paddles[i].y

\* the ball overlapped a paddle in the Ball.update of this frame (the paddles
\* have not moved yet)
HitInFrame == \E i \in DOMAIN paddles : Overlaps(MovedInFrame.x, MovedInFrame.y, i)

\* C14 as stated: in a frame where the ball overlaps a paddle, Ball.update
\* only inverts x_vel, and leaves the ball where the move step put it
\* (position at frame start + velocity at frame start).
C14_NoPositionalCorrection ==
    (pc = "bounds" /\ HitInFrame) =>
        /\ ball.x_vel = -start.x_vel
        /\ ball.x = start.x + start.x_vel
        /\ ball.y = start.y + start.y_vel

\* C15: at the end of every frame the ball's rectangle lies vertically
\* within the screen: top >= 0 and bottom <= HEIGHT.
C15_BallVerticallyInside ==
    pc = "draw" => (ball.y >= 0 /\ ball.y + BallSize <= HEIGHT)

\* a frame in which the ball crossed the top of the screen has ended with
\* the ball stepped back inside and moving down
C15_Witness ==
    /\ pc = "draw"
    /\ start.y + start.y_vel < 0
    /\ ball.y = start.y /\ ball.y_vel = BALL_SPEED

\* no frame has both a wall crossed and a paddle overlapped
NoWallAndPaddleTogether ==
    pc = "bounds" => ~(WallCrossedInFrame /\ HitInFrame)

\* C16: at the end of every frame the ball is strictly inside the field
\* horizontally: left edge > 0 and right edge < WIDTH.
C16_BallHorizontallyInside ==
    pc = "draw" => (ball.x > 0 /\ ball.x + BallSize < WIDTH)

\* a frame in which the ball reached the left edge has ended with the ball
\* at the center
C16_Witness ==
    /\ pc = "draw"
    /\ start.x + start.x_vel <= 0
    /\ ball.x = WIDTH \div 2 - BALL_RADIUS

\* C17: both scores start at 0; a step that changes a score is a scoring
\* check (one per frame) that adds exactly 1 to one score, leaves the other
\* and resets the ball to the center; so no score ever decreases.
C17_ScoresGrowByOneWithReset ==
    /\ (player_score = 0 /\ ai_score = 0)
    /\ [][(player_score' /= player_score \/ ai_score' /= ai_score) =>
            /\ pc = "bounds" /\ pc' = "paddles"
            /\ \/ (ai_score' = ai_score + 1 /\ player_score' = player_score)
               \/ (player_score' = player_score + 1 /\ ai_score' = ai_score)
            /\ AtCenter(ball')
            /\ (ball.x <= 0 \/ ball.x + BallSize >= WIDTH)]_vars

\* each side has scored once and the frame of the second point has ended
C17_Witness ==
    /\ pc = "draw"
    /\ ai_score = 1 /\ player_score = 1
    /\ AtCenter(ball)

\* the ball overlaps a paddle at the end of the frame
OverlapAtFrameEnd ==
    pc = "draw" /\ \E i \in DOMAIN paddles : Overlaps(ball.x, ball.y, i)

\* C18 as stated: at the end of every frame the ball's rectangle overlaps
\* neither paddle's rectangle.
C18_NoOverlapAtFrameEnd == ~OverlapAtFrameEnd

====
